---- MODULE Spec2Model ----
(***************************************************************************)
(* Model of the POST /api/status handler of src/server.js: validation,     *)
(* trimming and deduplication of the usernames, the batched username       *)
(* lookup (getUserIds), the presence call, the per-user classification     *)
(* with the place-details lookup (getGameInfo), and the response.          *)
(*                                                                         *)
(* A JavaScript string is a sequence of one-character strings, so that     *)
(* trim() and toLowerCase() are computed and not assumed.  A JavaScript    *)
(* object used as a map is an insertion-ordered sequence of key/value      *)
(* entries.  The code between two awaits runs without interleaving, so an  *)
(* action is one such stretch: from the arrival of the request, or from    *)
(* the completion of an upstream call with one of the outcomes the         *)
(* upstream can produce, to the issue of the next upstream call or to the  *)
(* response.  calls logs the upstream calls in the order of their issue.   *)
(***************************************************************************)
EXTENDS Integers, Sequences, FiniteSets, TLC

\* ------------------------------------------------------------------ bounds
\* Longest 'users' array of a request of Spec.
MaxUsers == 3
\* Largest number of usernames handed to getUserIds in SpecBatch.
MaxBatchUsers == 250
\* A malformed lookup body throws after this many well-formed entries at most.
MaxMalformedPrefix == 1

\* ------------------------------------------------------- program constants
\* The usernames of one bulk lookup call (the step and the slice width).
BatchLimit == 100
\* null / undefined / 0: the falsy id values of the code.
NoId == 0
\* userPresenceType codes compared by the handler.
TypeOnline == 1
TypeStudio == 2
TypeInGame == 3

\* ----------------------------------------------------------------- strings
IsSpace(c) == c = " "

\* One character of String.prototype.toLowerCase.
LowerChar(c) ==
    CASE c = "A" -> "a"
      [] c = "B" -> "b"
      [] c = "C" -> "c"
      [] c = "U" -> "u"
      [] OTHER -> c

\* String.prototype.toLowerCase.
ToLower(s) == [j \in 1..Len(s) |-> LowerChar(s[j])]

RECURSIVE TrimLeft(_)
TrimLeft(s) ==
    IF Len(s) > 0 /\ IsSpace(Head(s)) THEN TrimLeft(Tail(s)) ELSE s

RECURSIVE TrimRight(_)
TrimRight(s) ==
    IF Len(s) > 0 /\ IsSpace(s[Len(s)])
    THEN TrimRight(SubSeq(s, 1, Len(s) - 1))
    ELSE s

\* String.prototype.trim.
Trim(s) == TrimRight(TrimLeft(s))

\* Array.prototype.slice(a, b) with 0-based a and exclusive b, clamped.
Slice(s, a, b) ==
    LET hi == IF b < Len(s) THEN b ELSE Len(s)
    IN  IF a >= hi THEN <<>> ELSE SubSeq(s, a + 1, hi)

Range(s) == {s[j] : j \in 1..Len(s)}

\* ------------------------------------------------- uniqueUsers (line 92)
\* users.map(u => u.trim())
TrimAll(us) == [j \in 1..Len(us) |-> Trim(us[j])]

\* .filter(u => u): the empty string is falsy.
NonEmpty(us) == SelectSeq(us, LAMBDA u : Len(u) > 0)

\* A deduplication that folds case: not what the code does.
SetOrderFoldCase(us) ==
    LET first == SelectSeq([j \in 1..Len(us) |-> j],
                           LAMBDA j : \A k \in 1..(j - 1) :
                                         ToLower(us[k]) # ToLower(us[j]))
    IN  [m \in 1..Len(first) |-> us[first[m]]]

\* [...new Set(xs)]: the distinct values (exact equality), each at the place
\* of its first occurrence.
SetOrder(us) ==
    LET first == SelectSeq([j \in 1..Len(us) |-> j],
                           LAMBDA j : \A k \in 1..(j - 1) : us[k] # us[j])
    IN  [m \in 1..Len(first) |-> us[first[m]]]

\* Line 92 without the Set: duplicates are kept.
UniqueUsersNoDedupe(us) == NonEmpty(TrimAll(us))

\* Line 92: trimmed, the empty strings dropped, deduplicated.
UniqueUsers(us) == SetOrder(NonEmpty(TrimAll(us)))

\* ------------------------------------------------ objects used as maps
\* A JavaScript object with string or numeric keys written as m[k] = v:
\* a sequence of entries in insertion order; a write to an existing key
\* keeps its place.
MapHas(m, k) == \E j \in 1..Len(m) : m[j].key = k

MapGet(m, k) == m[CHOOSE j \in 1..Len(m) : m[j].key = k].val

MapPut(m, k, v) ==
    IF MapHas(m, k)
    THEN [j \in 1..Len(m) |->
            IF m[j].key = k THEN [key |-> k, val |-> v] ELSE m[j]]
    ELSE Append(m, [key |-> k, val |-> v])

\* Object.values(m)
MapValues(m) == [j \in 1..Len(m) |-> m[j].val]

\* m[k] read as a value: NoId stands for undefined.
MapGetOrNoId(m, k) == IF MapHas(m, k) THEN MapGet(m, k) ELSE NoId

\* ------------------------------------------------------------ getUserIds
RECURSIVE ChunksFrom(_, _, _)
ChunksFrom(us, i, acc) ==
    IF i < Len(us)
    THEN ChunksFrom(us, i + BatchLimit, Append(acc, Slice(us, i, i + BatchLimit)))
    ELSE acc

RECURSIVE FullChunksFrom(_, _, _)
FullChunksFrom(us, i, acc) ==
    IF i + BatchLimit <= Len(us)
    THEN FullChunksFrom(us, i + BatchLimit,
                        Append(acc, Slice(us, i, i + BatchLimit)))
    ELSE acc

\* A chunks loop that stops before a last chunk shorter than the limit.
ChunksDropTail(us) == FullChunksFrom(us, 0, <<>>)

\* The chunks loop of getUserIds (lines 34-37).
Chunks(us) == ChunksFrom(us, 0, <<>>)

\* resp.data.data.forEach(user => userMap[user.name.toLowerCase()] = user.id)
\* (lines 47-49), as the map the loop ends with: a key that is written keeps
\* its place if it was there, is appended at its first write otherwise, and
\* holds the id of its last write.
PutUsers(m, data) ==
    LET keys == [j \in 1..Len(data) |-> ToLower(data[j].name)]
        lastId(k) ==
            data[CHOOSE j \in 1..Len(data) :
                    /\ keys[j] = k
                    /\ \A l \in (j + 1)..Len(data) : keys[l] # k].id
        written == Range(keys)
        kept == [j \in 1..Len(m) |->
                    IF m[j].key \in written
                    THEN [key |-> m[j].key, val |-> lastId(m[j].key)]
                    ELSE m[j]]
        added == SelectSeq(SetOrder(keys), LAMBDA k : ~MapHas(m, k))
    IN  kept \o [j \in 1..Len(added) |->
                    [key |-> added[j], val |-> lastId(added[j])]]

\* ------------------------------------------- the upstream services
RECURSIVE Digits(_)
Digits(n) ==
    LET d == <<"0", "1", "2", "3", "4", "5", "6", "7", "8", "9">>
    IN  IF n < 10 THEN <<d[n + 1]>> ELSE Append(Digits(n \div 10), d[(n % 10) + 1])

\* The i-th generated username, "U<i>".
GenName(i) == <<"U">> \o Digits(i)

\* The accounts of the identity service, each with its canonical name.
\* "c" and every seventh generated name are not registered.
Accounts ==
    {[name |-> <<"A">>, id |-> 1], [name |-> <<"b">>, id |-> 2]}
    \cup {[name |-> GenName(n), id |-> 1000 + n] :
             n \in {m \in 1..MaxBatchUsers : m % 7 # 3}}

\* Name matching of the identity service is case-insensitive.
AccountOf ==
    [k \in {ToLower(a.name) : a \in Accounts} |->
        CHOOSE a \in Accounts : ToLower(a.name) = k]

Registered(u) == ToLower(u) \in DOMAIN AccountOf

\* The data array of a successful bulk lookup: one {name, id} entry per
\* requested username that is registered, in request order.
LookupData(chunk) ==
    LET found == SelectSeq(chunk, Registered)
    IN  [j \in 1..Len(found) |-> AccountOf[ToLower(found[j])]]

\* The place-details service: the name of a place or universe id.
PlaceNames == (7 :> "Place7") @@ (9 :> "Universe9")

\* The presence records the presence service may hold for one user id
\* (userId is added when the record is returned).  Type 4 stands for any
\* type code the handler does not list.  A universeId is drawn for type 3,
\* a placeId for the types 1 to 3.
PresencePool ==
    {r \in [userPresenceType : 0..4, placeId : {NoId, 7},
            universeId : {NoId, 9}, lastLocation : {"Somewhere"}] :
        /\ r.universeId # NoId => r.userPresenceType = 3
        /\ r.placeId # NoId => r.userPresenceType \in 1..3}

\* The presence service holds no record for the id.
NoRecord ==
    [userPresenceType |-> -1, placeId |-> NoId, universeId |-> NoId,
     lastLocation |-> ""]

\* The userPresences arrays a successful presence call may return for ids:
\* per requested id, no record or one record of the pool, in the order of ids.
PresenceArrays(ids) ==
    {LET kept == SelectSeq(ids, LAMBDA d : f[d] # NoRecord)
     IN  [j \in 1..Len(kept) |-> [userId |-> kept[j]] @@ f[kept[j]]] :
        f \in [Range(ids) -> PresencePool \cup {NoRecord}]}

\* ------------------------------------------------------------- the state
VARIABLES
    pc,            \* where the handler stands
    body,          \* req.body: whether 'users' is given, and its elements
    uniqueUsers,   \* line 92
    chunks,        \* getUserIds: the chunks
    ci,            \* getUserIds: the chunk the for-of loop is at (1-based)
    userMap,       \* lowercase username -> user id
    presenceMap,   \* user id -> presence record
    results,       \* the per-user report
    ui,            \* the username the final loop is at (1-based)
    httpStatus,    \* the status of the response sent, 0 while none is
    calls          \* the upstream calls issued, in order, with their outcome

vars ==
    <<pc, body, uniqueUsers, chunks, ci, userMap, presenceMap, results, ui,
      httpStatus, calls>>

\* The raw strings a request of Spec draws its 'users' elements from.
RawNames ==
    {<<" ">>, <<"a">>, <<"A">>, <<" ", "b", " ">>, <<"c">>}

RECURSIVE SeqsUpTo(_, _)
\* The sequences over S of length n at most.
SeqsUpTo(S, n) ==
    IF n = 0 THEN {<<>>}
    ELSE LET shorter == SeqsUpTo(S, n - 1)
         IN  shorter \cup {Append(q, x) : q \in shorter, x \in S}

\* The first n generated usernames.
GenUsers(n) == [j \in 1..n |-> GenName(j)]

Fresh ==
    /\ uniqueUsers = <<>>
    /\ chunks = <<>>
    /\ ci = 1
    /\ userMap = <<>>
    /\ presenceMap = <<>>
    /\ results = <<>>
    /\ ui = 1
    /\ httpStatus = 0
    /\ calls = <<>>

\* A request has arrived; nothing of the handler has run.
Init ==
    /\ pc = "recv"
    /\ body \in {[hasUsers |-> FALSE, users |-> <<>>]}
                \cup {[hasUsers |-> TRUE, users |-> us] :
                         us \in SeqsUpTo(RawNames, MaxUsers)}
    /\ Fresh

\* A request with n distinct generated usernames has arrived.
InitBatch ==
    /\ pc = "recv"
    /\ body \in {[hasUsers |-> TRUE, users |-> GenUsers(n)] :
                    n \in 0..MaxBatchUsers}
    /\ Fresh

\* ------------------------------------------------------------ the calls
\* An upstream call as it is issued.
Call(kind, arg, at) ==
    [kind |-> kind, arg |-> arg, at |-> at, outcome |-> "pending"]

\* The log with its last call completed.
Completed(cs, outcome) == [cs EXCEPT ![Len(cs)].outcome = outcome]

\* ------------------------------------------ the final loop, lines 128-179
\* const userId = userMap[username.toLowerCase()]
UserIdOf(m, username) == MapGetOrNoId(m, ToLower(username))

\* const presence = presenceMap[userId]
PresenceOf(pm, userId) ==
    IF MapHas(pm, userId) THEN MapGet(pm, userId) ELSE NoRecord

\* userIdToUsernameMap[id] (lines 122-125): the key of the last entry of
\* userMap that holds id.
ReverseName(m, id) ==
    m[CHOOSE j \in 1..Len(m) :
         /\ m[j].val = id
         /\ \A l \in (j + 1)..Len(m) : m[l].val # id].key

\* presence.universeId || presence.placeId: the argument of getGameInfo.
GameInfoId(p) == IF p.universeId # NoId THEN p.universeId ELSE p.placeId

\* if (presence) and presence.userPresenceType === 3 (lines 145, 150).
InGame(p) == p # NoRecord /\ p.userPresenceType = TypeInGame

\* A classification that takes every unlisted type for "Online".
ClassifyOnlineDefault(p, gameInfo) ==
    LET given == p # NoRecord
        t == p.userPresenceType
    IN  [status |-> IF given /\ t \in {TypeInGame, TypeStudio} THEN "In Game"
                    ELSE IF given THEN "Online" ELSE "Offline",
         mapName |-> IF given /\ t = TypeInGame
                     THEN (IF p.placeId = NoId THEN "In Game (placeId hidden)"
                           ELSE gameInfo)
                     ELSE IF given /\ t = TypeStudio THEN "In Studio"
                     ELSE IF given THEN "Online di Website"
                     ELSE "Offline",
         placeId |-> IF given THEN p.placeId ELSE NoId,
         universeId |-> IF given THEN p.universeId ELSE NoId,
         lastLocation |-> IF given THEN p.lastLocation ELSE "Offline"]

\* Lines 139-166: the fields of the record of a resolved user, from its
\* presence (NoRecord: none) and from what getGameInfo returned (read for
\* type 3 only).
Classify(p, gameInfo) ==
    LET given == p # NoRecord
        t == p.userPresenceType
    IN  [status |-> IF given /\ t \in {TypeInGame, TypeStudio} THEN "In Game"
                    ELSE IF given /\ t = TypeOnline THEN "Online"
                    ELSE "Offline",
         mapName |-> IF given /\ t = TypeInGame
                     THEN (IF p.placeId = NoId THEN "In Game (placeId hidden)"
                           ELSE gameInfo)
                     ELSE IF given /\ t = TypeStudio THEN "In Studio"
                     ELSE IF given /\ t = TypeOnline THEN "Online di Website"
                     ELSE "Offline",
         placeId |-> IF given THEN p.placeId ELSE NoId,
         universeId |-> IF given THEN p.universeId ELSE NoId,
         lastLocation |-> IF given THEN p.lastLocation ELSE "Offline"]

\* Lines 168-176: the record pushed for a resolved user.
ResolvedRecord(m, pm, username, gameInfo) ==
    LET userId == UserIdOf(m, username)
    IN  [username |-> ReverseName(m, userId), userId |-> userId]
        @@ Classify(PresenceOf(pm, userId), gameInfo)

\* A not-found record of the shape of the resolved ones.
NotFoundRecordPopulated(username) ==
    [username |-> username, error |-> "Pengguna tidak ditemukan di Roblox.",
     userId |-> NoId, status |-> "Offline"]

\* Line 132: the record pushed for a username userMap does not hold.
NotFoundRecord(username) ==
    [username |-> username, error |-> "Pengguna tidak ditemukan di Roblox."]

\* getGameInfo posts the place-details call for this username: the user is
\* resolved and in game (line 152), and the id passes line 62.
NeedsPlaceCall(m, pm, username) ==
    LET p == PresenceOf(pm, UserIdOf(m, username))
    IN  UserIdOf(m, username) # NoId /\ InGame(p) /\ GameInfoId(p) # NoId

\* The record of a username for which no upstream call is awaited: not
\* found, not in game, or in game with neither id, where getGameInfo returns
\* "Unknown Place" at line 62.
DirectRecord(m, pm, username) ==
    IF UserIdOf(m, username) = NoId
    THEN NotFoundRecord(username)
    ELSE ResolvedRecord(m, pm, username, "Unknown Place")

\* What getGameInfo returns for an outcome of the call on id (lines 73-77):
\* the name of the first entry, "Unknown Place" for an empty array or a throw.
GameInfoResult(id, outcome) ==
    IF outcome = "ok" /\ id \in DOMAIN PlaceNames
    THEN PlaceNames[id]
    ELSE "Unknown Place"

\* The loop of lines 128-177 from the username at index from, with results
\* res and call log cs, up to its next await: the place-details call of the
\* first username from there that needs one, or res.json(results) (line 179).
RunLoop(us, m, pm, from, res, cs) ==
    LET callers == {k \in from..Len(us) : NeedsPlaceCall(m, pm, us[k])}
        stop == IF callers = {} THEN Len(us) + 1
                ELSE CHOOSE k \in callers : \A l \in callers : k <= l
        pushed == res \o [j \in 1..(stop - from) |->
                             DirectRecord(m, pm, us[from + j - 1])]
    IN  /\ results' = pushed
        /\ ui' = stop
        /\ IF stop <= Len(us)
           THEN /\ calls' = Append(cs, Call("place",
                                            GameInfoId(PresenceOf(pm, UserIdOf(m, us[stop]))),
                                            stop))
                /\ pc' = "awaitPlace"
                /\ UNCHANGED httpStatus
           ELSE /\ calls' = cs
                /\ pc' = "responded"
                /\ httpStatus' = 200

\* ------------------------------------------- the handler, lines 96-125
\* The handler once getUserIds has returned m: the presence call is posted
\* if validUserIds is not empty (line 103); otherwise presenceData stays
\* {userPresences: []} and the final loop runs.
AfterResolve(us, m, cs) ==
    IF Len(MapValues(m)) > 0
    THEN /\ calls' = Append(cs, Call("presence", MapValues(m), 0))
         /\ pc' = "awaitPresence"
         /\ UNCHANGED <<presenceMap, results, ui, httpStatus>>
    ELSE /\ presenceMap' = <<>>
         /\ RunLoop(us, m, <<>>, 1, <<>>, cs)

\* ------------------------------------------------ getUserIds, lines 40-55
\* The for-of loop of getUserIds at chunk nci with userMap m: the lookup of
\* that chunk is posted (line 42), or the loop is over and m is returned.
ResolveFrom(us, chs, nci, m, cs) ==
    /\ chunks' = chs
    /\ ci' = nci
    /\ userMap' = m
    /\ IF nci <= Len(chs)
       THEN /\ calls' = Append(cs, Call("lookup", chs[nci], nci))
            /\ pc' = "awaitLookup"
            /\ UNCHANGED <<presenceMap, results, ui, httpStatus>>
       ELSE AfterResolve(us, m, cs)

\* ---------------------------------------------- the handler, lines 83-93
\* !users || users.length === 0
EmptyInput(b) == ~b.hasUsers \/ Len(b.users) = 0

\* From the arrival of the request to its first await: the validation, the
\* deduplication and getUserIds up to its first lookup, or past its early
\* return of line 31.
Receive ==
    /\ pc = "recv"
    /\ IF EmptyInput(body)
       THEN /\ httpStatus' = 400
            /\ pc' = "rejected"
            /\ UNCHANGED <<uniqueUsers, chunks, ci, userMap, presenceMap,
                           results, ui, calls>>
       ELSE /\ uniqueUsers' = UniqueUsers(body.users)
            /\ LET us == UniqueUsers(body.users)
               IN  ResolveFrom(us, IF Len(us) = 0 THEN <<>> ELSE Chunks(us),
                               1, <<>>, calls)
    /\ UNCHANGED body

\* The lookup answers: every entry is written to userMap (lines 47-49).
LookupOk ==
    /\ pc = "awaitLookup"
    /\ ResolveFrom(uniqueUsers, chunks, ci + 1,
                   PutUsers(userMap, LookupData(chunks[ci])),
                   Completed(calls, "ok"))
    /\ UNCHANGED <<body, uniqueUsers>>

\* The lookup throws (network error, non-2xx): caught, next chunk (line 50).
LookupError ==
    /\ pc = "awaitLookup"
    /\ ResolveFrom(uniqueUsers, chunks, ci + 1, userMap,
                   Completed(calls, "error"))
    /\ UNCHANGED <<body, uniqueUsers>>

\* A 2xx answer with a malformed body: the forEach of line 47 throws inside
\* the try after k well-formed entries (k = 0: no data array at all).
LookupMalformed ==
    /\ pc = "awaitLookup"
    /\ \E k \in 0..MaxMalformedPrefix :
          /\ k <= Len(LookupData(chunks[ci]))
          /\ ResolveFrom(uniqueUsers, chunks, ci + 1,
                         PutUsers(userMap, SubSeq(LookupData(chunks[ci]), 1, k)),
                         Completed(calls, "malformed"))
    /\ UNCHANGED <<body, uniqueUsers>>

\* --------------------------------------------- the presence call returns
RECURSIVE PutPresences(_, _)
\* presenceData.userPresences.forEach(p => presenceMap[p.userId] = p)
PutPresences(m, ps) ==
    IF ps = <<>> THEN m
    ELSE PutPresences(MapPut(m, Head(ps).userId, Head(ps)), Tail(ps))

\* The presence call answers with a userPresences array (lines 106,
\* 113-116); the final loop runs.
PresenceOk ==
    /\ pc = "awaitPresence"
    /\ \E ps \in PresenceArrays(MapValues(userMap)) :
          /\ presenceMap' = PutPresences(<<>>, ps)
          /\ RunLoop(uniqueUsers, userMap, PutPresences(<<>>, ps), 1, <<>>,
                     Completed(calls, "ok"))
    /\ UNCHANGED <<body, uniqueUsers, chunks, ci, userMap>>

\* The presence call throws: caught (line 107), presenceData stays empty.
PresenceError ==
    /\ pc = "awaitPresence"
    /\ presenceMap' = <<>>
    /\ RunLoop(uniqueUsers, userMap, <<>>, 1, <<>>, Completed(calls, "error"))
    /\ UNCHANGED <<body, uniqueUsers, chunks, ci, userMap>>

\* A 2xx answer whose body has no userPresences array: presenceData is that
\* body (line 106) and line 114 throws a TypeError outside any try: the
\* promise of the async handler rejects and res.json is never reached.
PresenceMalformed ==
    /\ pc = "awaitPresence"
    /\ calls' = Completed(calls, "malformed")
    /\ pc' = "crashed"
    /\ UNCHANGED <<body, uniqueUsers, chunks, ci, userMap, presenceMap,
                   results, ui, httpStatus>>

\* ---------------------------------------- the place-details call returns
\* A completion that asks again for the same user when the call failed.
PlaceReturnRetry(outcome) ==
    /\ pc = "awaitPlace"
    /\ IF outcome = "ok"
       THEN RunLoop(uniqueUsers, userMap, presenceMap, ui + 1,
                    Append(results,
                           ResolvedRecord(userMap, presenceMap, uniqueUsers[ui],
                                          GameInfoResult(calls[Len(calls)].arg,
                                                         outcome))),
                    Completed(calls, outcome))
       ELSE RunLoop(uniqueUsers, userMap, presenceMap, ui, results,
                    Completed(calls, outcome))
    /\ UNCHANGED <<body, uniqueUsers, chunks, ci, userMap, presenceMap>>

\* The place-details call completes with outcome: the record of the user is
\* pushed (lines 152-176) and the loop goes on.
PlaceReturn(outcome) ==
    /\ pc = "awaitPlace"
    /\ RunLoop(uniqueUsers, userMap, presenceMap, ui + 1,
               Append(results,
                      ResolvedRecord(userMap, presenceMap, uniqueUsers[ui],
                                     GameInfoResult(calls[Len(calls)].arg,
                                                    outcome))),
               Completed(calls, outcome))
    /\ UNCHANGED <<body, uniqueUsers, chunks, ci, userMap, presenceMap>>

\* The answer holds an entry.
PlaceOk == PlaceReturn("ok")

\* The answer is an empty array: placeData is undefined (line 74).
PlaceEmpty == PlaceReturn("empty")

\* The call throws: caught at line 75.
PlaceError == PlaceReturn("error")

Next ==
    \/ Receive
    \/ LookupOk
    \/ LookupError
    \/ LookupMalformed
    \/ PresenceOk
    \/ PresenceError
    \/ PresenceMalformed
    \/ PlaceOk
    \/ PlaceEmpty
    \/ PlaceError

Spec == Init /\ [][Next]_vars

\* getUserIds alone, up to the await that follows it.
NextBatch ==
    \/ Receive
    \/ LookupOk
    \/ LookupError
    \/ LookupMalformed

SpecBatch == InitBatch /\ [][NextBatch]_vars

\* ================================================================ claims
\* What the claims speak of, stated over the request and the response and
\* not through uniqueUsers: t is the 'users' array with every element trimmed.
\* The distinct (exact equality) non-empty usernames of t.
DistinctIn(t) == Range(t) \ {<<>>}

FirstIdx(t, x) ==
    CHOOSE j \in 1..Len(t) : t[j] = x /\ \A k \in 1..(j - 1) : t[k] # x

\* The rank of x among the distinct non-empty usernames of t, by first
\* occurrence.
Pos(t, x) ==
    LET fx == FirstIdx(t, x)
    IN  1 + Cardinality({y \in DistinctIn(t) : FirstIdx(t, y) < fx})

IsError(r) == "error" \in DOMAIN r

\* r is the record of the trimmed username x: the not-found record of x, or
\* a resolved record carrying the id of the account x names.
RecordIsFor(r, x) ==
    IF IsError(r) THEN r.username = x
    ELSE Registered(x) /\ r.userId = AccountOf[ToLower(x)].id

\* Every element of 'users' is empty or whitespace.
AllBlank == body.hasUsers /\ \A j \in 1..Len(body.users) : Trim(body.users[j]) = <<>>

CallsOf(kind) == {j \in 1..Len(calls) : calls[j].kind = kind}

\* C1: the response array of a request with a non-empty 'users' list holds
\* exactly one record per distinct non-empty trimmed username, in the order
\* of first occurrence, whatever the upstream calls did.
C1_OneRecordPerName ==
    pc = "responded" =>
        LET t == TrimAll(body.users)
            d == DistinctIn(t)
        IN  /\ httpStatus = 200
            /\ Len(results) = Cardinality(d)
            /\ \A x \in d : RecordIsFor(results[Pos(t, x)], x)

\* C1 witness: a response to a request with a repeated username and a blank
\* one, with a failed upstream call, a resolved user and a not-found one.
C1_Witness ==
    /\ pc = "responded"
    /\ Len(body.users) = 3
    /\ Len(results) = 2
    /\ IsError(results[1])
    /\ ~IsError(results[2])
    /\ \E j \in 1..Len(calls) : calls[j].outcome = "error"

\* C2: a request whose 'users' is absent, empty or all blank is answered
\* with 400 and makes no upstream call.
C2_BlankRejected ==
    (~body.hasUsers \/ AllBlank) =>
        /\ calls = <<>>
        /\ pc \in {"rejected", "responded", "crashed"} => httpStatus = 400

\* C3: a resolved user in game (type 3) without placeId gets the mapName
\* "In Game (placeId hidden)" and no place-details call is issued for it.
C3_HiddenPlaceNoCall ==
    \A k \in 1..Len(uniqueUsers) :
        LET p == PresenceOf(presenceMap, UserIdOf(userMap, uniqueUsers[k]))
        IN  (/\ pc \in {"awaitPlace", "responded"}
             /\ UserIdOf(userMap, uniqueUsers[k]) # NoId
             /\ InGame(p)
             /\ p.placeId = NoId)
            => /\ \A j \in CallsOf("place") : calls[j].at # k
               /\ k <= Len(results) =>
                     results[k].mapName = "In Game (placeId hidden)"

\* The entries of userMap as a set of <<key, id>> pairs.
UserMapPairs == {<<userMap[j].key, userMap[j].val>> : j \in 1..Len(userMap)}

UserMapKeys == {userMap[j].key : j \in 1..Len(userMap)}

\* The <<key, id>> pairs a successful lookup of chunk returns.
ReturnedPairs(chunk) ==
    {<<ToLower(u), AccountOf[ToLower(u)].id>> : u \in {v \in Range(chunk) : Registered(v)}}

\* C4: getUserIds on n distinct usernames issues ceil(n/100) lookup calls,
\* the j-th carrying the usernames 100(j-1)+1 .. min(100j, n); every username
\* a successful batch returned is mapped to its id whatever the other batches
\* did, and no username of a batch that threw is mapped.
C4_Batching ==
    LET n == Len(body.users)
    IN  (body.hasUsers /\ pc # "recv") =>
          /\ \A j \in CallsOf("lookup") :
                /\ j <= (n + 99) \div 100
                /\ Len(calls[j].arg) = (IF 100 * j <= n THEN 100 ELSE n - 100 * (j - 1))
                /\ \A m \in 1..Len(calls[j].arg) :
                      calls[j].arg[m] = body.users[100 * (j - 1) + m]
                /\ calls[j].outcome = "ok" =>
                      ReturnedPairs(calls[j].arg) \subseteq UserMapPairs
                /\ calls[j].outcome = "error" =>
                      {ToLower(u) : u \in Range(calls[j].arg)} \cap UserMapKeys = {}
          /\ pc # "awaitLookup" =>
                Cardinality(CallsOf("lookup")) = (n + 99) \div 100

\* C4 witness: 250 usernames resolved in three calls of 100, 100 and 50, the
\* second one failed, with usernames of the first and third batch mapped.
C4_Witness ==
    /\ pc = "awaitPresence"
    /\ Len(body.users) = 250
    /\ Cardinality(CallsOf("lookup")) = 3
    /\ Len(calls[1].arg) = 100 /\ Len(calls[2].arg) = 100 /\ Len(calls[3].arg) = 50
    /\ calls[1].outcome = "ok" /\ calls[2].outcome = "error" /\ calls[3].outcome = "ok"
    /\ <<ToLower(GenName(1)), 1001>> \in UserMapPairs
    /\ <<ToLower(GenName(250)), 1250>> \in UserMapPairs
    /\ ToLower(GenName(150)) \notin UserMapKeys

\* C5: once the validation has passed, no upstream outcome keeps the handler
\* from sending its response.
C5_NeverAborts == pc # "crashed"

C7_CanonicalCasing ==
    \A k \in 1..Len(results) :
        ~IsError(results[k]) =>
            \E a \in Accounts :
                a.id = results[k].userId /\ results[k].username = a.name

\* C8 as stated: usernames that differ only in letter case are one username,
\* looked up once and reported once.
C8_FoldCaseDedupe ==
    /\ \A j \in CallsOf("lookup") :
          \A m1, m2 \in 1..Len(calls[j].arg) :
              ToLower(calls[j].arg[m1]) = ToLower(calls[j].arg[m2]) => m1 = m2
    /\ pc = "responded" =>
          Len(results) =
             Cardinality({ToLower(x) : x \in DistinctIn(TrimAll(body.users))})

\* C8 amended: the deduplication is by exact equality of the trimmed strings.
\* Two usernames that differ only in letter case are both sent to the lookup
\* and have a record each; both records are not-found or both carry the same
\* user id.
C8_ExactDedupe ==
    pc \in {"awaitLookup", "responded"} =>
        LET t == TrimAll(body.users)
            d == DistinctIn(t)
        IN  /\ \A j \in CallsOf("lookup") :
                  /\ Range(calls[j].arg) = d
                  /\ Len(calls[j].arg) = Cardinality(d)
            /\ pc = "responded" =>
                  \A x, y \in d :
                      (x # y /\ ToLower(x) = ToLower(y)) =>
                          LET rx == results[Pos(t, x)]
                              ry == results[Pos(t, y)]
                          IN  /\ Pos(t, x) # Pos(t, y)
                              /\ IsError(rx) = IsError(ry)
                              /\ IsError(rx) => rx.username = x /\ ry.username = y
                              /\ ~IsError(rx) => rx.userId = ry.userId

\* C8 witness: "a" and "A" in one request, both looked up, both resolved.
C8_Witness ==
    /\ pc = "responded"
    /\ calls # <<>>
    /\ {<<"a">>, <<"A">>} \subseteq Range(calls[1].arg)
    /\ Len(results) >= 2
    /\ \E k1, k2 \in 1..Len(results) :
          /\ k1 # k2
          /\ ~IsError(results[k1]) /\ ~IsError(results[k2])
          /\ results[k1].userId = results[k2].userId

\* The place-details call issued for the k-th username, if any.
PlaceCallsAt(k) == {j \in CallsOf("place") : calls[j].at = k}

\* The decision table of the claim: <<status, mapName>> for a presence type,
\* with the name the place-details lookup ended with for type 3.
TableEntry(hasRecord, type, placeName) ==
    CASE hasRecord /\ type = 1 -> <<"Online", "Online di Website">>
      [] hasRecord /\ type = 2 -> <<"In Game", "In Studio">>
      [] hasRecord /\ type = 3 -> <<"In Game", placeName>>
      [] OTHER -> <<"Offline", "Offline">>

\* C9: the status and mapName of every resolved user are those of the
\* decision table for its presence; type 2 issues no place-details call; for
\* type 3 with a placeId the mapName is the name the lookup returned when it
\* succeeded and "Unknown Place" otherwise; when the presence call failed,
\* every resolved user is Offline / Offline.
C9_DecisionTable ==
    pc = "responded" =>
      \A k \in 1..Len(results) :
        ~IsError(results[k]) =>
            LET id == results[k].userId
                has == MapHas(presenceMap, id)
                p == IF has THEN MapGet(presenceMap, id) ELSE NoRecord
                t == p.userPresenceType
                looked == PlaceCallsAt(k)
                name == IF \E j \in looked : calls[j].outcome = "ok"
                        THEN PlaceNames[calls[CHOOSE j \in looked : TRUE].arg]
                        ELSE "Unknown Place"
            IN  /\ (has /\ t = 3 /\ p.placeId = NoId)
                   \/ <<results[k].status, results[k].mapName>> = TableEntry(has, t, name)
                /\ (has /\ t = 3 /\ p.placeId # NoId) => Cardinality(looked) = 1
                /\ ~(has /\ t = 3) => looked = {}
                /\ (\E j \in CallsOf("presence") : calls[j].outcome = "error") =>
                      <<results[k].status, results[k].mapName>> = <<"Offline", "Offline">>

\* C9 witness: a response with a user in game whose place name was resolved
\* and a user of an unlisted presence type reported Offline.
C9_Witness ==
    /\ pc = "responded"
    /\ \E k \in 1..Len(results) :
          /\ ~IsError(results[k])
          /\ results[k].status = "In Game"
          /\ results[k].mapName = "Place7"
    /\ \E k \in 1..Len(results) :
          /\ ~IsError(results[k])
          /\ MapHas(presenceMap, results[k].userId)
          /\ MapGet(presenceMap, results[k].userId).userPresenceType = 4
          /\ results[k].status = "Offline"

\* Every call but the last has completed: a call is issued only after the
\* previous one has completed.
Sequential == \A j \in 1..(Len(calls) - 1) : calls[j].outcome # "pending"

KindRank(kind) ==
    CASE kind = "lookup" -> 1 [] kind = "presence" -> 2 [] kind = "place" -> 3

\* Every lookup call precedes the presence call, which precedes every
\* place-details call.
Ordered ==
    \A j1, j2 \in 1..Len(calls) :
        j1 < j2 => KindRank(calls[j1].kind) <= KindRank(calls[j2].kind)

====
